---- MODULE Spec2Model ----
(***************************************************************************)
(* A model of the zap-shift parcel-delivery server (src/src/index.js):     *)
(* the four MongoDB collections, the Stripe checkout sessions the server   *)
(* reads, and the request handlers.  A handler that awaits the store or     *)
(* the provider more than once is split at its awaits, so that concurrent  *)
(* requests interleave exactly where the event loop lets them.             *)
(***************************************************************************)
EXTENDS Integers, FiniteSets, TLC

VARIABLES
    charge,              \* the charge, in BDT, of the parcels the clients of this run pay for
    usersCollection,     \* set of user documents
    ridersCollection,    \* set of rider documents
    parcelsCollection,   \* parcel _id -> set holding the document (empty: no such parcel)
    paymentsCollection,  \* set of payment documents
    sessions,            \* Stripe: session id -> set holding the session (empty: unknown id)
    req,                 \* PATCH /payments requests: slot -> the handler's locals and position
    res                  \* response of the last single-await request (GET ..., POST /payments)

vars == <<charge, usersCollection, ridersCollection, parcelsCollection, paymentsCollection,
          sessions, req, res>>

----------------------------------------------------------------------------
(* Bounds *)

MaxReq == 2   \* PATCH /payments requests issued in one run
MaxCharge == 2310   \* the largest charge, in BDT, of a parcel: 21 * 110

Reqs == 1..MaxReq

(* The names requests are made of *)

\* Parcel _ids: the 24 hex characters of an object id.
ParcelIds  == {"65f0a1b2c3d4e5f601234567"}
\* An id string that `new ObjectId(...)` rejects: not 24 hex characters.
MalformedId == "P1"
\* What a client can send as parcel._id in the body of POST /payments.
BodyIds    == ParcelIds \cup {MalformedId}
\* The checkout sessions the provider issues, in this order.
SessionIds == {"sess_1", "sess_2"}
SessionRank(sid) == IF sid = "sess_1" THEN 1 ELSE 2
\* The payment intent the provider issues when a session is paid.
PaymentIntentOf(sid) == IF sid = "sess_1" THEN "pi_1" ELSE "pi_2"
NoIntent == "null"

Emails  == {"a@x.com", "b@x.com"}
\* The sender of a parcel of the dashboard.
OwnerOf(id) == IF id = MalformedId THEN "b@x.com" ELSE "a@x.com"

\* A charge in BDT, as sent in the body of POST /payments.
Charges == {1100}

\* null / undefined for a tracking id or an _id
Null == 0

----------------------------------------------------------------------------
(* Documents *)

ParcelDoc(email, status, tid) ==
    [senderEmail |-> email, paymentStatus |-> status, trackingId |-> tid]

\* The `payment` object of PATCH /payments, built of the session s; id = Null
\* is the object before the store has given it an _id.  paidAt, the clock's
\* reading, is left out.
PaymentDoc(id, s, tid) ==
    [id            |-> id,
     amount        |-> s.amount_total \div 100,
     currency      |-> s.currency,
     customerEmail |-> s.customer_email,
     parcelId      |-> s.parcelId,
     parcelName    |-> s.parcelName,
     paymentStatus |-> s.payment_status,
     transactionId |-> s.payment_intent,
     trackingId    |-> tid]

\* insertOne gives the document an _id no other document has: a handler
\* inserts once, so the _id is named after the request r that inserts.
FreshPaymentId(r) == r

\* generateTrackingId of ./utils.js: ids that do not repeat.  A handler
\* generates once, so the id is named after the request r.
generateTrackingId(r) == r

IdleReq ==
    [pc |-> "idle", sessionId |-> "null", session |-> {}, paid |-> FALSE,
     trackingId |-> Null, existingPayment |-> {}, status |-> 0, body |-> {},
     kind |-> "none", error |-> "none", startedAfter |-> {}, responses |-> 0,
     threwAt |-> "none"]

RiderDoc(id, email) == [id |-> id, email |-> email, status |-> "pending"]

\* A query parameter, header or field that is not there.
Undefined == "undefined"

\* The response to a request, with what the request had become when it was
\* answered: its authorization header, req.headers.email as the guard set it, the query object's one
\* field as the handler built it, whether find() was called, and the
\* documents the collection held when it was.
Answer(route, status, body, email, query, queried, scanned) ==
    [route |-> route, status |-> status, body |-> body, authorization |-> Undefined,
     email |-> email, query |-> query, queried |-> queried, scanned |-> scanned]

\* The answers to a request that came with this authorization header.
From(authorization, answers) ==
    {[a EXCEPT !.authorization = authorization] : a \in answers}

\* The response of a handler that has no guard and builds no query.
Response(route, status, body) ==
    Answer(route, status, body, Undefined, Undefined, FALSE, {})

----------------------------------------------------------------------------
\* The server starts on a store in which some of the parcels have been
\* posted, unpaid; no checkout has been started.
Init ==
    /\ charge \in Charges
    /\ usersCollection = {}
    /\ ridersCollection = {}
    /\ \E posted \in SUBSET ParcelIds :
          parcelsCollection = [p \in ParcelIds |->
              IF p \in posted THEN {ParcelDoc(OwnerOf(p), "unpaid", Null)} ELSE {}]
    /\ paymentsCollection = {}
    /\ sessions = [s \in SessionIds |-> {}]
    /\ req = [r \in Reqs |-> IdleReq]
    /\ res = Response("none", 0, {})

----------------------------------------------------------------------------
(* The checkout provider (Stripe), seen through the two calls the server makes *)

\* A handler that rounds the converted amount down.
usdAmount_Floor(bdtAmount) == bdtAmount \div 110

\* Math.ceil(bdtAmount / 110)
usdAmount(bdtAmount) == -((-bdtAmount) \div 110)

\* usdAmount * 100: the unit_amount of the single line item
unitAmount(bdtAmount) == usdAmount(bdtAmount) * 100

\* The argument of stripe.checkout.sessions.create: one line item, the
\* metadata, the receipt email.  The two redirect urls are left out.
SessionCreateParams(parcel) ==
    [line_item      |-> [currency    |-> "usd",
                         unit_amount |-> unitAmount(parcel.charge),
                         name        |-> parcel.parcelName,
                         quantity    |-> 1],
     mode           |-> "payment",
     metadata       |-> [parcelId |-> parcel.id, parcelName |-> parcel.parcelName],
     customer_email |-> parcel.senderEmail]

\* The session the provider makes of these params, as sessions.retrieve
\* returns it; `params` is what the provider received, kept with the session.
SessionOf(params) ==
    [payment_status |-> "unpaid",
     amount_total   |-> params.line_item.unit_amount * params.line_item.quantity,
     currency       |-> params.line_item.currency,
     customer_email |-> params.customer_email,
     parcelId       |-> params.metadata.parcelId,
     parcelName     |-> params.metadata.parcelName,
     payment_intent |-> NoIntent,
     params         |-> params]

\* The session stripe.checkout.sessions.create makes of the request's parcel.
NewSession(parcel) == SessionOf(SessionCreateParams(parcel))

FreeSessionIds == {s \in SessionIds : sessions[s] = {}}

\* A handler that records a pending payment when the checkout starts.
PostPaymentsOk_InsertsPayment(parcel) ==
    /\ FreeSessionIds # {}
    /\ LET sid == CHOOSE s \in FreeSessionIds :
                      \A t \in FreeSessionIds : SessionRank(s) <= SessionRank(t)
       IN /\ sessions' = [sessions EXCEPT ![sid] = {NewSession(parcel)}]
          /\ res' = Response("POST /payments", 200, {[url |-> sid]})
    /\ paymentsCollection' = paymentsCollection \cup
           {PaymentDoc(Null, NewSession(parcel), Null)}
    /\ UNCHANGED <<charge, usersCollection, ridersCollection, parcelsCollection, req>>

\* POST /payments, the provider accepting: the session exists at the provider
\* and the handler answers with its url.  No collection is touched.
PostPaymentsOk(parcel) ==
    /\ FreeSessionIds # {}
    /\ LET sid == CHOOSE s \in FreeSessionIds : \A t \in FreeSessionIds : SessionRank(s) <= SessionRank(t)
       IN /\ sessions' = [sessions EXCEPT ![sid] = {NewSession(parcel)}]
          /\ res' = Response("POST /payments", 200, {[url |-> sid]})
    /\ UNCHANGED <<charge, usersCollection, ridersCollection, parcelsCollection,
                   paymentsCollection, req>>

\* POST /payments, sessions.create throwing: the catch answers 500.
PostPaymentsFails(parcel) ==
    /\ res' = Response("POST /payments", 500, {})
    /\ UNCHANGED <<charge, usersCollection, ridersCollection, parcelsCollection,
                   paymentsCollection, sessions, req>>

\* The client posts a parcel of the dashboard, or one with an _id of its own making.
PostPaymentsOf(id) ==
    LET parcel == [id |-> id, charge |-> charge, parcelName |-> "Box",
                   senderEmail |-> OwnerOf(id)]
    IN  PostPaymentsOk(parcel) \/ PostPaymentsFails(parcel)

PostPayments == \E id \in BodyIds : PostPaymentsOf(id)

\* The customer pays on the hosted page: the provider marks the session paid
\* and issues its payment intent.  A paid session never goes back.
ProviderPays(sid) ==
    /\ \E s \in sessions[sid] :
          /\ s.payment_status = "unpaid"
          /\ sessions' = [sessions EXCEPT ![sid] =
                 {[s EXCEPT !.payment_status = "paid", !.payment_intent = PaymentIntentOf(sid)]}]
    /\ UNCHANGED <<charge, usersCollection, ridersCollection, parcelsCollection,
                   paymentsCollection, req, res>>

----------------------------------------------------------------------------
(* PATCH /payments?sessionId=... : one action per await of the handler *)

\* The request arrives; the handler calls sessions.retrieve and suspends.
PatchPaymentsStart(r, sid) ==
    /\ req[r].pc = "idle"
    /\ \A q \in Reqs : q < r => req[q].pc # "idle"
    /\ req' = [req EXCEPT ![r] = [@ EXCEPT !.pc = "retrieve", !.sessionId = sid,
                 !.startedAfter = {q \in Reqs : req[q].pc = "done"}]]
    /\ UNCHANGED <<charge, usersCollection, ridersCollection, parcelsCollection,
                   paymentsCollection, sessions, res>>

\* A handler that takes every retrieved session for a paid one.
IsPaid_Always(session) == TRUE

\* A handler that compares with the status of the session, not of the payment.
IsPaid_StatusComplete(session) == session.payment_status = "complete"

\* session.payment_status === "paid"
IsPaid(session) == session.payment_status = "paid"

\* sessions.retrieve answers: paid, trackingId and payment are computed and
\* the handler suspends in paymentsCollection.findOne.
RetrieveSession(r) ==
    /\ req[r].pc = "retrieve"
    /\ \E s \in sessions[req[r].sessionId] :
          req' = [req EXCEPT ![r] = [@ EXCEPT !.pc = "findOne", !.session = {s},
                    !.paid = IsPaid(s),
                    !.trackingId = generateTrackingId(r)]]
    /\ UNCHANGED <<charge, usersCollection, ridersCollection, parcelsCollection,
                   paymentsCollection, sessions, res>>

\* A handler without the check of existingPayment.
SettleBranch_NoIdempotency(existingPayment, paid) ==
    IF paid THEN "settle" ELSE "unpaid"

\* A handler without the check of paid.
SettleBranch_IgnoresPaid(existingPayment, paid) ==
    IF existingPayment # {} THEN "existing" ELSE "settle"

\* What the handler does with the answer of findOne:
\* return the existing payment, settle, or report the session as not paid.
SettleBranch(existingPayment, paid) ==
    IF existingPayment # {} THEN "existing"
    ELSE IF paid THEN "settle"
    ELSE "unpaid"

\* new ObjectId(id) throws on a string that is no object id.
ObjectIdThrows(id) == id = MalformedId

PaymentsOfParcel(parcelId) == {p \in paymentsCollection : p.parcelId = parcelId}

\* A lookup by the transaction of the session.
PaymentFilter_ByTransaction(session) == [transactionId |-> session.payment_intent]

\* const filter = { parcelId: session.metadata.parcelId }
PaymentFilter(session) == [parcelId |-> session.parcelId]

\* findOne(filter) answers with any one document that has the filter's
\* fields, or null.
FindOneResults(filter) ==
    LET matches == {p \in paymentsCollection : \A f \in DOMAIN filter : p[f] = filter[f]}
    IN  IF matches = {} THEN {{}} ELSE {{p} : p \in matches}

\* res.json(body), status 200; `responses` counts the responses sent.
Respond(locals, kind, body) ==
    [locals EXCEPT !.pc = "done", !.status = 200, !.kind = kind, !.body = body,
                   !.responses = @ + 1]

\* A catch that notes the error and lets the rejected call be made again.
Catch_Retries(locals, error) == [locals EXCEPT !.error = error]

\* catch (err): res.status(500).json({ error: err.message }); `threwAt` keeps
\* the place the handler was at when the error was thrown.
Catch(locals, error) ==
    [locals EXCEPT !.pc = "done", !.status = 500, !.kind = "error", !.error = error,
                   !.responses = @ + 1, !.threwAt = locals.pc]

\* findOne answers and the handler runs to its next await or to its response.
FindOnePayment(r) ==
    /\ req[r].pc = "findOne"
    /\ \E s \in req[r].session : \E existingPayment \in FindOneResults(PaymentFilter(s)) :
          LET branch == SettleBranch(existingPayment, req[r].paid)
              found  == [req[r] EXCEPT !.existingPayment = existingPayment]
          IN  req' = [req EXCEPT ![r] =
                 CASE branch = "existing" ->
                        Respond(found, "existing", existingPayment)
                   [] branch = "settle" /\ ObjectIdThrows(s.parcelId) ->
                        Catch(found, "BSONError")
                   [] branch = "settle" /\ ~ObjectIdThrows(s.parcelId) ->
                        [found EXCEPT !.pc = "updateOne"]
                   [] OTHER ->
                        Respond(found, "unpaid", {})]
    /\ UNCHANGED <<charge, usersCollection, ridersCollection, parcelsCollection,
                   paymentsCollection, sessions, res>>

\* An update that leaves trackingId out of $set.
ParcelUpdate_StatusOnly(doc, trackingId) ==
    [doc EXCEPT !.paymentStatus = "paid"]

\* An update that keeps the tracking id of a parcel that has one.
ParcelUpdate_KeepsTrackingId(doc, trackingId) ==
    [doc EXCEPT !.paymentStatus = "paid",
                !.trackingId = IF doc.trackingId = Null THEN trackingId ELSE @]

\* $set: { paymentStatus: "paid", trackingId }
ParcelUpdate(doc, trackingId) ==
    [doc EXCEPT !.paymentStatus = "paid", !.trackingId = trackingId]

\* parcelsCollection.updateOne is applied (to no document when none has the
\* _id) and the handler suspends in paymentsCollection.insertOne.
UpdateOneParcel(r) ==
    /\ req[r].pc = "updateOne"
    /\ \E s \in req[r].session :
          parcelsCollection' = [parcelsCollection EXCEPT ![s.parcelId] =
              {ParcelUpdate(doc, req[r].trackingId) : doc \in @}]
    /\ req' = [req EXCEPT ![r] = [@ EXCEPT !.pc = "insertOne"]]
    /\ UNCHANGED <<charge, usersCollection, ridersCollection, paymentsCollection,
                   sessions, res>>

\* insertOne stores a copy of payment; the handler answers with payment.
InsertOnePayment(r) ==
    /\ req[r].pc = "insertOne"
    /\ \E s \in req[r].session :
          /\ paymentsCollection' = paymentsCollection \cup
                 {PaymentDoc(FreshPaymentId(r), s, req[r].trackingId)}
          /\ req' = [req EXCEPT ![r] =
                 Respond(@, "payment", {PaymentDoc(Null, s, req[r].trackingId)})]
    /\ UNCHANGED <<charge, usersCollection, ridersCollection, parcelsCollection,
                   sessions, res>>

\* The awaits of the handler: each can reject instead of answering.
Awaits == {"retrieve", "findOne", "updateOne", "insertOne"}

\* A handler that catches the failure of sessions.retrieve on its own and
\* goes on to the lookup.
AwaitThrows_LookupAnyway(r) ==
    /\ req[r].pc \in Awaits
    /\ req' = [req EXCEPT ![r] =
           IF req[r].pc = "retrieve" THEN [@ EXCEPT !.pc = "findOne"]
           ELSE Catch(@, "MongoError")]
    /\ UNCHANGED <<charge, usersCollection, ridersCollection, parcelsCollection,
                   paymentsCollection, sessions, res>>

\* The awaited call rejects (unknown session, provider or store unreachable):
\* the catch answers 500 and the handler is over.
AwaitThrows(r) ==
    /\ req[r].pc \in Awaits
    /\ req' = [req EXCEPT ![r] =
           Catch(@, IF req[r].pc = "retrieve" THEN "StripeError" ELSE "MongoError")]
    /\ UNCHANGED <<charge, usersCollection, ridersCollection, parcelsCollection,
                   paymentsCollection, sessions, res>>

PatchPayments ==
    \E r \in Reqs :
        \/ \E sid \in SessionIds : PatchPaymentsStart(r, sid)
        \/ RetrieveSession(r)
        \/ FindOnePayment(r)
        \/ UpdateOneParcel(r)
        \/ InsertOnePayment(r)
        \/ AwaitThrows(r)

----------------------------------------------------------------------------
(* POST /riders, one request at a time *)

\* The _ids of riders: one for each rider there can be at a time.
RiderIds == 1..Cardinality(Emails)

\* insertOne gives the rider an _id no rider of the collection has.
FreshRiderId ==
    LET free == {id \in RiderIds : \A rider \in ridersCollection : rider.id # id}
    IN  CHOOSE id \in free : \A other \in free : id <= other

\* findOne({ email }) then insertOne: 409 when a rider has the email, else the
\* rider is stored, status "pending", under a fresh _id, and the answer is 201.
PostRidersOk(email) ==
    /\ IF \E rider \in ridersCollection : rider.email = email
       THEN /\ res' = Response("POST /riders", 409, {})
            /\ ridersCollection' = ridersCollection
       ELSE /\ res' = Response("POST /riders", 201, {})
            /\ ridersCollection' = ridersCollection \cup {RiderDoc(FreshRiderId, email)}
    /\ UNCHANGED <<charge, usersCollection, parcelsCollection, paymentsCollection,
                   sessions, req>>

\* findOne or insertOne rejects: the catch answers 500, nothing is stored.
PostRidersThrows(email) ==
    /\ res' = Response("POST /riders", 500, {})
    /\ UNCHANGED <<charge, usersCollection, ridersCollection, parcelsCollection,
                   paymentsCollection, sessions, req>>

PostRiders ==
    \E email \in Emails : PostRidersOk(email) \/ PostRidersThrows(email)

----------------------------------------------------------------------------
(* The guarded GET endpoints *)

\* The authorization headers a client can send: none, a token Firebase verifies
\* for an account with an email, one it verifies for an account without
\* (phone or anonymous sign-in), and one it rejects.
TokenOf(email) == IF email = "a@x.com" THEN "Bearer token-a" ELSE "Bearer token-b"
AnonymousToken == "Bearer token-anonymous"
InvalidToken   == "Bearer expired"
Authorizations ==
    {Undefined, AnonymousToken, InvalidToken} \cup {TokenOf(e) : e \in Emails}

\* admin.auth().verifyIdToken(token): the decoded token's email, when it verifies.
VerifiedTokens == Authorizations \ {Undefined, InvalidToken}
DecodedEmail(authorization) ==
    IF \E e \in Emails : authorization = TokenOf(e)
    THEN CHOOSE e \in Emails : authorization = TokenOf(e)
    ELSE Undefined

\* A guard whose catch lets the request through.
verifyFirebaseToken_CatchCallsNext(authorization) ==
    IF authorization = Undefined THEN [status |-> 401, email |-> Undefined]
    ELSE [status |-> 200, email |-> DecodedEmail(authorization)]

\* verifyFirebaseToken: 401 without a header or with a token that does not
\* verify; else req.headers.email is set and next() runs the handler.
verifyFirebaseToken(authorization) ==
    IF authorization = Undefined THEN [status |-> 401, email |-> Undefined]
    ELSE IF authorization \notin VerifiedTokens THEN [status |-> 401, email |-> Undefined]
    ELSE [status |-> 200, email |-> DecodedEmail(authorization)]

\* What a client can put in an owner or status parameter of the query string.
OwnerParams  == Emails \cup {"", Undefined}
StatusParams == {"pending", "approved", "", Undefined}

\* if (req.query[key]) query[key] = req.query[key]: the value of query[key].
QueryField(param) == IF param \in {"", Undefined} THEN Undefined ELSE param

\* A handler without the owner check.
ForbiddenAccess_Never(queryOwner, email) == FALSE

\* A handler that checks the owner only when the query names one.
ForbiddenAccess_OnlyWhenFiltered(queryOwner, email) ==
    queryOwner # Undefined /\ queryOwner # email

\* query.customerEmail !== req.headers.email (resp. senderEmail)
ForbiddenAccess(queryOwner, email) == queryOwner # email

\* collection.find(query) for a query of at most one field
Matches(doc, field, value) == value = Undefined \/ doc[field] = value

ParcelDocs == UNION {parcelsCollection[p] : p \in ParcelIds}

\* The answers of a handler that reached find(): the documents, or the 500
\* of the catch when find() rejects.
FindAnswers(route, docs, field, email, query) ==
    {Answer(route, 200, {d \in docs : Matches(d, field, query)}, email, query, TRUE, docs),
     Answer(route, 500, {}, email, query, TRUE, docs)}

\* One guarded GET whose handler checks the owner: the guard, the check, the find.
OwnerScopedGet(route, docs, field, authorization, param) ==
    LET auth  == verifyFirebaseToken(authorization)
        owner == QueryField(param)
    IN  /\ res' \in From(authorization,
              IF auth.status = 401 THEN {Response(route, 401, {})}
              ELSE IF ForbiddenAccess(owner, auth.email)
                   THEN {Answer(route, 403, {}, auth.email, owner, FALSE, {})}
              ELSE FindAnswers(route, docs, field, auth.email, owner))
        /\ UNCHANGED <<charge, usersCollection, ridersCollection, parcelsCollection,
                       paymentsCollection, sessions, req>>

GetPayments(authorization, customerEmail) ==
    OwnerScopedGet("GET /payments", paymentsCollection, "customerEmail",
                   authorization, customerEmail)

GetParcels(authorization, senderEmail) ==
    OwnerScopedGet("GET /parcels", ParcelDocs, "senderEmail",
                   authorization, senderEmail)

\* GET /riders: the guard, then find by status; no owner is checked.
GetRiders(authorization, status) ==
    LET auth == verifyFirebaseToken(authorization)
    IN  /\ res' \in From(authorization,
              IF auth.status = 401 THEN {Response("GET /riders", 401, {})}
              ELSE FindAnswers("GET /riders", ridersCollection, "status",
                               auth.email, QueryField(status)))
        /\ UNCHANGED <<charge, usersCollection, ridersCollection, parcelsCollection,
                       paymentsCollection, sessions, req>>

Gets ==
    \E authorization \in Authorizations :
        \/ \E p \in OwnerParams : GetPayments(authorization, p)
        \/ \E p \in OwnerParams : GetParcels(authorization, p)
        \/ \E p \in StatusParams : GetRiders(authorization, p)

----------------------------------------------------------------------------
(* POST /users, one request at a time *)

UserDoc(email, role) == [email |-> email, role |-> role]

\* findOne({ email }) then insertOne: the user is stored with role "user"
\* and the answer is 201, unless a user has the email: then the answer is 200.
PostUsersOk(email) ==
    /\ IF \E user \in usersCollection : user.email = email
       THEN /\ res' = Response("POST /users", 200, {})
            /\ usersCollection' = usersCollection
       ELSE /\ res' = Response("POST /users", 201, {})
            /\ usersCollection' = usersCollection \cup {UserDoc(email, "user")}
    /\ UNCHANGED <<charge, ridersCollection, parcelsCollection, paymentsCollection,
                   sessions, req>>

\* findOne or insertOne rejects: the catch answers 500, nothing is stored.
PostUsersThrows(email) ==
    /\ res' = Response("POST /users", 500, {})
    /\ UNCHANGED <<charge, usersCollection, ridersCollection, parcelsCollection,
                   paymentsCollection, sessions, req>>

PostUsers ==
    \E email \in Emails : PostUsersOk(email) \/ PostUsersThrows(email)

----------------------------------------------------------------------------
(* PATCH /riders/:id with the body { status }, and DELETE /riders/:id,
   one request at a time *)

\* The status a dashboard sends in the body of PATCH /riders/:id.
StatusBodies == {"approved", "rejected"}

\* updateOne(filter, { $set: { status } }): the riders of the _id whose
\* document the update changes; modifiedCount is their number.
Modified(id, status) ==
    {rider \in ridersCollection : rider.id = id /\ rider.status # status}

\* usersCollection.updateOne({ email }, { $set: { role: "rider" } }):
\* the collections it can leave, one matching user updated if there is one.
UsersWithRider(email) ==
    LET matching == {user \in usersCollection : user.email = email}
    IN  IF matching = {} THEN {usersCollection}
        ELSE {(usersCollection \ {user}) \cup {[user EXCEPT !.role = "rider"]} :
                 user \in matching}

\* The guard answers 401: the handler does not run.
PatchRidersUnauthorized(authorization) ==
    /\ verifyFirebaseToken(authorization).status = 401
    /\ res' \in From(authorization, {Response("PATCH /riders/:id", 401, {})})
    /\ UNCHANGED <<charge, usersCollection, ridersCollection, parcelsCollection,
                   paymentsCollection, sessions, req>>

\* new ObjectId(id), findOne or the riders' updateOne throws: 500, no write.
PatchRidersThrows(authorization, id, status) ==
    /\ verifyFirebaseToken(authorization).status = 200
    /\ res' \in From(authorization,
           {Answer("PATCH /riders/:id", 500, {},
                   verifyFirebaseToken(authorization).email, Undefined, TRUE, {})})
    /\ UNCHANGED <<charge, usersCollection, ridersCollection, parcelsCollection,
                   paymentsCollection, sessions, req>>

\* The handler runs through: 404 when the update modified no rider; else the
\* rider has the status and, when it is "approved", a user of the rider's
\* email has the role "rider", unless that second update throws: then 500.
PatchRidersOk(authorization, id, status) ==
    LET email    == verifyFirebaseToken(authorization).email
        rider    == {r \in ridersCollection : r.id = id}
        modified == Modified(id, status)
        \* kept with the answer: the status of the body, and what findOne read
        answer(code) == From(authorization,
            {Answer("PATCH /riders/:id", code, {}, email, status, TRUE, rider)})
    IN  /\ verifyFirebaseToken(authorization).status = 200
        /\ IF modified = {}
           THEN /\ res' \in answer(404)
                /\ UNCHANGED <<usersCollection, ridersCollection>>
           ELSE /\ ridersCollection' = (ridersCollection \ modified) \cup
                       {[m EXCEPT !.status = status] : m \in modified}
                /\ IF status = "approved"
                   THEN \/ /\ \E m \in rider :
                                 usersCollection' \in UsersWithRider(m.email)
                           /\ res' \in answer(200)
                        \/ /\ usersCollection' = usersCollection
                           /\ res' \in answer(500)
                   ELSE /\ usersCollection' = usersCollection
                        /\ res' \in answer(200)
        /\ UNCHANGED <<charge, parcelsCollection, paymentsCollection, sessions, req>>

PatchRiders ==
    \E authorization \in Authorizations :
        \/ PatchRidersUnauthorized(authorization)
        \/ \E id \in RiderIds, status \in StatusBodies :
               \/ PatchRidersThrows(authorization, id, status)
               \/ PatchRidersOk(authorization, id, status)

\* DELETE /riders/:id: deleteOne, 200 when it deleted a rider, else 404;
\* 500 when new ObjectId(id) or deleteOne throws.
DeleteRiders ==
    \E id \in RiderIds :
        LET found == {rider \in ridersCollection : rider.id = id}
        IN  /\ \/ /\ ridersCollection' = ridersCollection \ found
                   /\ res' = Response("DELETE /riders/:id",
                                      IF found = {} THEN 404 ELSE 200, {})
               \/ /\ ridersCollection' = ridersCollection
                   /\ res' = Response("DELETE /riders/:id", 500, {})
            /\ UNCHANGED <<charge, usersCollection, parcelsCollection,
                           paymentsCollection, sessions, req>>

----------------------------------------------------------------------------
(* POST /parcels, GET /parcels/:id and DELETE /parcels/:id, none guarded *)

\* The body of POST /parcels is stored as it comes: the sender's dashboard
\* sends the parcel unpaid, another client whatever it likes.
ParcelStatuses == {"unpaid", "paid"}

\* insertOne({ ...parcel, createdAt }): the parcel is stored under an _id no
\* parcel has, and the answer is 201; 500 when insertOne rejects.  (The store
\* never issues an _id twice; here a parcel posted after a deletion takes the
\* one _id again, so the runs of the server are among these.)
PostParcels ==
    \/ \E id \in ParcelIds, status \in ParcelStatuses :
          /\ parcelsCollection[id] = {}
          /\ parcelsCollection' = [parcelsCollection EXCEPT ![id] =
                 {ParcelDoc(OwnerOf(id), status, Null)}]
          /\ res' = Response("POST /parcels", 201, {})
          /\ UNCHANGED <<charge, usersCollection, ridersCollection, paymentsCollection,
                         sessions, req>>
    \/ /\ res' = Response("POST /parcels", 500, {})
       /\ UNCHANGED <<charge, usersCollection, ridersCollection, parcelsCollection,
                      paymentsCollection, sessions, req>>

\* findOne({ _id }): 200 with the parcel, 404 without, 500 when
\* new ObjectId(id) or findOne throws.
GetParcel ==
    \E id \in BodyIds :
        /\ \/ /\ ~ObjectIdThrows(id)
                /\ res' = Response("GET /parcels/:id",
                       IF parcelsCollection[id] = {} THEN 404 ELSE 200,
                       parcelsCollection[id])
             \/ res' = Response("GET /parcels/:id", 500, {})
        /\ UNCHANGED <<charge, usersCollection, ridersCollection, parcelsCollection,
                       paymentsCollection, sessions, req>>

\* A handler that deletes the payments of the parcel with it.
DeleteParcels_Cascade ==
    \E id \in ParcelIds :
        /\ parcelsCollection[id] # {}
        /\ parcelsCollection' = [parcelsCollection EXCEPT ![id] = {}]
        /\ paymentsCollection' = paymentsCollection \ PaymentsOfParcel(id)
        /\ res' = Response("DELETE /parcels/:id", 200, {})
        /\ UNCHANGED <<charge, usersCollection, ridersCollection, sessions, req>>

\* deleteOne({ _id }): 200 when it deleted the parcel, else 404; 500 when
\* new ObjectId(id) or deleteOne throws.  No other collection is touched.
DeleteParcels ==
    \E id \in BodyIds :
        /\ \/ /\ ~ObjectIdThrows(id)
                /\ parcelsCollection' = [parcelsCollection EXCEPT ![id] = {}]
                /\ res' = Response("DELETE /parcels/:id",
                       IF parcelsCollection[id] = {} THEN 404 ELSE 200, {})
             \/ /\ parcelsCollection' = parcelsCollection
                /\ res' = Response("DELETE /parcels/:id", 500, {})
        /\ UNCHANGED <<charge, usersCollection, ridersCollection, paymentsCollection,
                       sessions, req>>

----------------------------------------------------------------------------
Next ==
    \/ PostPayments
    \/ \E sid \in SessionIds : ProviderPays(sid)
    \/ PatchPayments

Spec == Init /\ [][Next]_vars

\* The steps a request takes once it has arrived: each is the settling of
\* the promise the handler awaits, and a promise settles.
HandlerStep(r) ==
    \/ RetrieveSession(r)
    \/ FindOnePayment(r)
    \/ UpdateOneParcel(r)
    \/ InsertOnePayment(r)
    \/ AwaitThrows(r)

\* Concurrent settlements of the first checkout of the run, each request
\* that has arrived going on to its answer.
NextFair ==
    \/ PostPayments
    \/ \E sid \in SessionIds : ProviderPays(sid)
    \/ \E r \in Reqs :
           \/ PatchPaymentsStart(r, "sess_1")
           \/ HandlerStep(r)

SpecFair == Init /\ [][NextFair]_vars /\ \A r \in Reqs : WF_vars(HandlerStep(r))

\* The guarded reads and POST /payments, over the stores that rider
\* applications and one settlement, of a checkout for a parcel with a
\* well-formed _id, produce.
FirstReq == CHOOSE r \in Reqs : \A q \in Reqs : r <= q

NextAccess ==
    \/ \E id \in ParcelIds : PostPaymentsOf(id)
    \/ \E sid \in SessionIds : ProviderPays(sid)
    \/ \E sid \in SessionIds : PatchPaymentsStart(FirstReq, sid)
    \/ RetrieveSession(FirstReq)
    \/ FindOnePayment(FirstReq)
    \/ UpdateOneParcel(FirstReq)
    \/ InsertOnePayment(FirstReq)
    \/ AwaitThrows(FirstReq)
    \/ PostRiders
    \/ Gets

SpecAccess == Init /\ [][NextAccess]_vars

\* Every endpoint of the server, one settlement at a time: the checkout and
\* settlement of the parcel, the parcel posted, read and deleted, one
\* applicant registering and applying as a rider, an administrator deciding
\* on the application, and the sender reading the three collections.
Applicant == "b@x.com"
Sender    == "a@x.com"

NextStore ==
    \/ \E id \in ParcelIds : PostPaymentsOf(id)
    \/ \E sid \in SessionIds : ProviderPays(sid)
    \/ \E sid \in SessionIds : PatchPaymentsStart(FirstReq, sid)
    \/ RetrieveSession(FirstReq)
    \/ FindOnePayment(FirstReq)
    \/ UpdateOneParcel(FirstReq)
    \/ InsertOnePayment(FirstReq)
    \/ AwaitThrows(FirstReq)
    \/ PostParcels
    \/ GetParcel
    \/ DeleteParcels
    \/ PostUsersOk(Applicant)
    \/ PostUsersThrows(Applicant)
    \/ PostRidersOk(Applicant)
    \/ PostRidersThrows(Applicant)
    \/ PatchRidersUnauthorized(InvalidToken)
    \/ \E id \in RiderIds, status \in StatusBodies :
           \/ PatchRidersThrows(TokenOf(Sender), id, status)
           \/ PatchRidersOk(TokenOf(Sender), id, status)
    \/ DeleteRiders
    \/ GetPayments(TokenOf(Sender), Sender)
    \/ GetParcels(TokenOf(Sender), Sender)
    \/ GetRiders(TokenOf(Sender), Undefined)

SpecStore == Init /\ [][NextStore]_vars

\* The guarded endpoints under every authorization header, over the riders
\* and users that applications, registrations and decisions produce.
NextGuard ==
    \/ PostUsers
    \/ PostRiders
    \/ PatchRiders
    \/ Gets

SpecGuard == Init /\ [][NextGuard]_vars

\* Registrations, rider applications and decisions on them, one request
\* at a time, every decision by an administrator whose token verifies.
Admin == "a@x.com"

NextRiders ==
    \/ PostUsers
    \/ PostRiders
    \/ \E id \in RiderIds, status \in StatusBodies :
           \/ PatchRidersThrows(TokenOf(Admin), id, status)
           \/ PatchRidersOk(TokenOf(Admin), id, status)

SpecRiders == Init /\ [][NextRiders]_vars

\* POST /payments over the charges a parcel can have: the store as in Init,
\* the clients of the run paying for parcels of any one charge up to MaxCharge.
InitCheckout ==
    /\ charge \in 1..MaxCharge
    /\ usersCollection = {}
    /\ ridersCollection = {}
    /\ \E posted \in SUBSET ParcelIds :
          parcelsCollection = [p \in ParcelIds |->
              IF p \in posted THEN {ParcelDoc(OwnerOf(p), "unpaid", Null)} ELSE {}]
    /\ paymentsCollection = {}
    /\ sessions = [s \in SessionIds |-> {}]
    /\ req = [r \in Reqs |-> IdleReq]
    /\ res = Response("none", 0, {})

NextCheckout ==
    \/ PostPayments
    \/ \E sid \in SessionIds : ProviderPays(sid)

SpecCheckout == InitCheckout /\ [][NextCheckout]_vars

----------------------------------------------------------------------------
(* Vocabulary of the properties *)

Done(r) == req[r].pc = "done"

\* r2 was issued after r1 was answered.
After(r1, r2) == r1 \in req[r2].startedAfter

\* No third request was in flight between the issue of r1 and the answer of r2.
Alone(r1, r2) ==
    \A q \in Reqs \ {r1, r2} :
        req[q].pc = "idle" \/ q \in req[r1].startedAfter \/ r2 \in req[q].startedAfter

\* r1 then r2 are two answered calls for one session that the provider
\* returned identically both times, nothing in between.
TwiceInSequence(r1, r2) ==
    /\ Done(r1) /\ Done(r2) /\ After(r1, r2) /\ Alone(r1, r2)
    /\ req[r1].sessionId = req[r2].sessionId
    /\ req[r1].session # {} /\ req[r1].session = req[r2].session

\* The requests so far ran one after another, and all are answered.
Sequential ==
    /\ \A r \in Reqs : req[r].pc \in {"idle", "done"}
    /\ \A r1, r2 \in Reqs : r1 # r2 /\ Done(r1) /\ Done(r2) => After(r1, r2) \/ After(r2, r1)

PaymentsOf(parcelId) == {p \in paymentsCollection : p.parcelId = parcelId}

\* A stored payment as the handler's payment object: no _id.
WithoutId(doc) == [doc EXCEPT !.id = Null]

ObservedPaid(locals) == \E s \in locals.session : s.payment_status = "paid"
ObservedUnpaid(locals) == \E s \in locals.session : s.payment_status # "paid"

IsPaidParcel(parcelId) == \E d \in parcelsCollection[parcelId] : d.paymentStatus = "paid"

----------------------------------------------------------------------------
(* C1 as stated: two calls in sequence for any session, the provider returning
   the same session both times and nothing in between, answer with the same
   Payment record and leave exactly one Payment document in the collection. *)
C1_Original ==
    \A r1, r2 \in Reqs :
        TwiceInSequence(r1, r2) =>
            /\ req[r1].kind \in {"payment", "existing"}
            /\ req[r2].body = req[r1].body
            /\ Cardinality(paymentsCollection) = 1

(* C1 amended: when the first of the two calls inserted and returned a Payment
   and the second call is answered without a failure, the second answer is the
   stored document of that Payment, equal to the first answer in every field
   but the _id the store added, and it is the one Payment of its parcelId. *)
C1_Idempotent ==
    \A r1, r2 \in Reqs :
        TwiceInSequence(r1, r2) /\ req[r1].kind = "payment" /\ req[r2].status = 200 =>
            /\ req[r2].kind = "existing"
            /\ \E doc \in req[r2].body :
                  /\ req[r2].body = {doc}
                  /\ doc.id # Null
                  /\ req[r1].body = {WithoutId(doc)}
                  /\ PaymentsOf(doc.parcelId) = {doc}

C1_Witness ==
    \E r1, r2 \in Reqs :
        TwiceInSequence(r1, r2) /\ req[r1].kind = "payment" /\ req[r2].kind = "existing"

(* C2: in every reachable state, whatever the interleaving of the requests,
   the payments collection holds at most one Payment for each parcelId. *)
C2_AtMostOnePaymentPerParcel ==
    \A parcelId \in BodyIds : Cardinality(PaymentsOf(parcelId)) <= 1

(* C3: after any sequence of completed calls, successful or failed, a parcel
   of the collection has a Payment if and only if its paymentStatus is paid. *)
C3_PaymentIffPaid ==
    Sequential =>
        \A parcelId \in ParcelIds :
            parcelsCollection[parcelId] # {} =>
                (PaymentsOf(parcelId) # {} <=> IsPaidParcel(parcelId))

(* C4: a step of a call whose retrieved session is not paid changes neither
   the parcels nor the payments; and as long as no call has retrieved a paid
   session, no Payment exists and every parcel is unpaid, without trackingId. *)
C4_UnpaidNeverWrites ==
    /\ [][\A r \in Reqs :
            req'[r] # req[r] /\ ObservedUnpaid(req'[r]) =>
                /\ parcelsCollection' = parcelsCollection
                /\ paymentsCollection' = paymentsCollection]_vars
    /\ []((\A r \in Reqs : ~ObservedPaid(req[r])) =>
            /\ paymentsCollection = {}
            /\ \A parcelId \in ParcelIds : \A d \in parcelsCollection[parcelId] :
                  d.paymentStatus = "unpaid" /\ d.trackingId = Null)

C4_Witness ==
    /\ \A r \in Reqs : Done(r) /\ req[r].kind = "unpaid" /\ ObservedUnpaid(req[r])
    /\ \E parcelId \in ParcelIds : \E d \in parcelsCollection[parcelId] :
          d.paymentStatus = "unpaid"

(* C5: the step in which findOne answers with an existing Payment ends the
   call with that document as the answer, and changes neither the parcels nor
   the payments; an answered call takes no further step. *)
C5_ExistingReturnedUntouched ==
    [][\A r \in Reqs :
         /\ req[r].pc = "findOne" /\ req'[r].existingPayment # {} =>
               /\ req'[r].pc = "done" /\ req'[r].status = 200
               /\ req'[r].body = req'[r].existingPayment
               /\ req'[r].existingPayment \subseteq paymentsCollection
               /\ \A p \in req'[r].existingPayment, s \in req[r].session :
                     p.parcelId = s.parcelId
               /\ parcelsCollection' = parcelsCollection
               /\ paymentsCollection' = paymentsCollection
         /\ Done(r) => req'[r] = req[r]]_vars

C5_Witness ==
    \E r \in Reqs :
        /\ Done(r) /\ req[r].kind = "existing"
        /\ \E p \in req[r].body : p.trackingId # req[r].trackingId

\* The call retrieved a paid session, findOne answered null, and no call to
\* the store rejected.
SettlingCall(r) ==
    /\ Done(r) /\ ObservedPaid(req[r])
    /\ req[r].kind # "existing" /\ req[r].error # "MongoError"

(* C6 as stated: every call that retrieves a paid session, finds no Payment
   and has no store call fail ends by answering with the inserted Payment. *)
C6_Original ==
    \A r \in Reqs : SettlingCall(r) => req[r].kind = "payment"

(* C6 amended: when the session's parcelId is a well-formed object id, such a
   call answers with the inserted Payment; its updateOne step leaves the parcel
   of that id, if there is one, paid with the call's new trackingId, and its
   insertOne step adds exactly one Payment, with the session's parcelId and
   payment_intent and that same trackingId. *)
C6_PaidSessionSettles ==
    /\ []( \A r \in Reqs :
             SettlingCall(r) /\ (\E s \in req[r].session : s.parcelId \in ParcelIds)
                 => req[r].kind = "payment")
    /\ [][\A r \in Reqs : \A s \in req[r].session :
            /\ req[r].pc = "updateOne" /\ req'[r].pc = "insertOne" =>
                  \A d \in parcelsCollection'[s.parcelId] :
                      d.paymentStatus = "paid" /\ d.trackingId = req[r].trackingId
            /\ req[r].pc = "insertOne" /\ req'[r].kind = "payment" =>
                  \E doc \in paymentsCollection' \ paymentsCollection :
                      /\ paymentsCollection' = paymentsCollection \cup {doc}
                      /\ doc.parcelId = s.parcelId
                      /\ doc.transactionId = s.payment_intent
                      /\ doc.trackingId = req[r].trackingId
                      /\ req'[r].body = {WithoutId(doc)}]_vars

C6_Witness ==
    \E r \in Reqs :
        /\ SettlingCall(r) /\ req[r].kind = "payment"
        /\ \E s \in req[r].session : \E d \in parcelsCollection[s.parcelId] :
              d.paymentStatus = "paid" /\ d.trackingId = req[r].trackingId

(* C7: a parcel goes from unpaid to paid only in the updateOne step of a call
   that retrieved a paid session for it and found no Payment, and a paid
   parcel stays paid in every step. *)
C7_PaidOnlyBySettlement ==
    [][\A parcelId \in ParcelIds : \A d \in parcelsCollection[parcelId] :
         /\ d.paymentStatus = "paid" =>
               /\ parcelsCollection'[parcelId] # {}
               /\ \A e \in parcelsCollection'[parcelId] : e.paymentStatus = "paid"
         /\ d.paymentStatus = "unpaid" /\ IsPaidParcel(parcelId)' =>
               \E r \in Reqs :
                   /\ req[r].pc = "updateOne" /\ req'[r].pc = "insertOne"
                   /\ req[r].existingPayment = {}
                   /\ \E s \in req[r].session :
                         s.payment_status = "paid" /\ s.parcelId = parcelId]_vars

C7_Witness ==
    \E parcelId \in ParcelIds :
        /\ IsPaidParcel(parcelId)
        /\ \E r \in Reqs : req[r].pc = "insertOne"

----------------------------------------------------------------------------
(* The guarded reads *)

OwnerScopedRoutes == {"GET /payments", "GET /parcels"}

\* The guard let the request through to its handler.
HandlerRan == res.status # 401

(* C8: an answer of GET /payments or GET /parcels to a request whose owner
   filter differs from the authenticated email is 403, carries no document,
   and find() was not called for it. *)
C8_OwnerMismatchRejected ==
    res.route \in OwnerScopedRoutes /\ HandlerRan
        /\ res.query # Undefined /\ res.query # res.email =>
            res.status = 403 /\ ~res.queried /\ res.body = {}

C8_Witness ==
    /\ res.route = "GET /payments" /\ res.status = 403
    /\ res.email = "b@x.com" /\ res.query = "a@x.com"
    /\ \E p \in paymentsCollection : p.customerEmail = "a@x.com"

(* C9 as stated: a guarded GET of an authenticated caller who supplies no
   filter, find() not failing, answers with all documents of the collection. *)
C9_Original ==
    /\ res.route \in OwnerScopedRoutes \cup {"GET /riders"}
    /\ HandlerRan /\ res.query = Undefined /\ res.status # 500
    => res.status = 200 /\ res.queried /\ res.body = res.scanned

(* C9 amended: without an owner filter GET /payments and GET /parcels answer
   403, find() not called, when the token carries an email, and answer with
   all documents of the collection only when it carries none; GET /riders
   without a status filter answers with all riders, whatever the identity. *)
C9_UnfilteredReads ==
    /\ res.route \in OwnerScopedRoutes /\ HandlerRan /\ res.query = Undefined =>
          IF res.email # Undefined
          THEN res.status = 403 /\ ~res.queried /\ res.body = {}
          ELSE /\ res.status \in {200, 500} /\ res.queried
               /\ res.status = 200 => res.body = res.scanned
    /\ res.route = "GET /riders" /\ HandlerRan /\ res.query = Undefined =>
          /\ res.status \in {200, 500} /\ res.queried
          /\ res.status = 200 => res.body = res.scanned

C9_Witness ==
    /\ res.route = "GET /parcels" /\ res.status = 403
    /\ res.query = Undefined /\ res.email = "a@x.com"
    /\ \E d \in ParcelDocs : d.senderEmail = "a@x.com"

(* C10: a step of POST /payments changes none of the four collections; it
   answers 200 exactly when the provider made the session, and 500 otherwise. *)
C10_InitiateCheckoutFrame ==
    [][LET created == {sid \in SessionIds : sessions[sid] = {} /\ sessions'[sid] # {}}
       IN  created # {} \/ (res' # res /\ res'.route = "POST /payments") =>
               /\ usersCollection' = usersCollection
               /\ ridersCollection' = ridersCollection
               /\ parcelsCollection' = parcelsCollection
               /\ paymentsCollection' = paymentsCollection
               /\ req' = req
               /\ res'.route = "POST /payments"
               /\ res'.status = IF created = {} THEN 500 ELSE 200
               /\ res'.body = {[url |-> sid] : sid \in created}]_vars

C10_Witness ==
    /\ res.route = "POST /payments" /\ res.status = 500
    /\ paymentsCollection # {} /\ ridersCollection # {}
    /\ \E sid \in SessionIds : sessions[sid] # {}

----------------------------------------------------------------------------
(* The checkout request *)

\* The sessions the provider holds.
Sessions == UNION {sessions[sid] : sid \in SessionIds}

\* ceil(c / 110): the least whole number of settlement units that covers c.
CeilOfRate(c) == CHOOSE k \in 0..c : 110 * k >= c /\ 110 * (k - 1) < c

(* C11: every session the provider was asked for, whatever the positive
   charge, has one line item of unit_amount 100 * ceil(charge / 110), currency
   usd, quantity 1, and the metadata parcelId and parcelName of the parcel sent;
   charge 1100 gives 1000 and charge 2200 gives 2000. *)
C11_UnitAmountIsCeiling ==
    \A s \in Sessions :
        /\ s.params.line_item.unit_amount = 100 * CeilOfRate(charge)
        /\ s.params.line_item.currency = "usd"
        /\ s.params.line_item.quantity = 1
        /\ s.params.line_item.name = "Box"
        /\ DOMAIN s.params.metadata = {"parcelId", "parcelName"}
        /\ s.params.metadata.parcelId \in BodyIds
        /\ s.params.metadata.parcelName = "Box"
        /\ s.params.customer_email = OwnerOf(s.params.metadata.parcelId)
        /\ charge = 1100 => s.params.line_item.unit_amount = 1000
        /\ charge = 2200 => s.params.line_item.unit_amount = 2000

C11_Witness ==
    /\ charge = 2200
    /\ \E s \in Sessions :
          /\ s.params.line_item.unit_amount = 2000
          /\ s.params.metadata = [parcelId |-> "P1", parcelName |-> "Box"]
    /\ \E s \in Sessions : s.params.metadata.parcelId \in ParcelIds

----------------------------------------------------------------------------
(* Failures of SettleCheckout *)

\* The awaits of the handler that are calls to the store.
StoreAwaits == {"findOne", "updateOne", "insertOne"}

(* C12: a call whose session retrieval fails is answered 500 in that very
   step, with both collections unchanged, and is over: it never waits for the
   store.  A call waits for the store only after sessions.retrieve has
   answered it with the session. *)
C12_RetrievalPrecedesStore ==
    /\ [][\A r \in Reqs :
            /\ req[r].pc = "retrieve" /\ req'[r].pc = "done" =>
                  /\ req'[r].status = 500 /\ req'[r].error = "StripeError"
                  /\ req'[r].session = {} /\ req'[r].existingPayment = {}
                  /\ parcelsCollection' = parcelsCollection
                  /\ paymentsCollection' = paymentsCollection
            /\ req[r].pc \notin StoreAwaits /\ req'[r].pc \in StoreAwaits =>
                  /\ req[r].pc = "retrieve"
                  /\ req'[r].session # {}
                  /\ req'[r].session \subseteq sessions[req[r].sessionId]
            /\ req[r].error = "StripeError" => req'[r] = req[r]]_vars
    /\ [](\A r \in Reqs :
            /\ req[r].pc \in StoreAwaits => req[r].session # {}
            /\ req[r].session = {} /\ req[r].pc \notin {"idle", "retrieve"} =>
                  Done(r) /\ req[r].status = 500 /\ req[r].error = "StripeError")

C12_Witness ==
    \E r \in Reqs :
        /\ Done(r) /\ req[r].error = "StripeError"
        /\ sessions[req[r].sessionId] # {}
        /\ PaymentsOf("65f0a1b2c3d4e5f601234567") # {}

----------------------------------------------------------------------------
(* The writers of the two collections *)

\* The step is the insertOne of a settlement that answers with its payment.
InsertStep(r) == req[r].pc = "insertOne" /\ req'[r].kind = "payment"

\* The step is the parcel update of a settlement for the parcel of this _id.
UpdateStep(r, parcelId) ==
    /\ req[r].pc = "updateOne" /\ req'[r].pc = "insertOne"
    /\ \E s \in req[r].session : s.parcelId = parcelId

(* C13: no step of any endpoint removes or alters a stored Payment; the
   payments grow only by the one document an insertOne step of PATCH /payments
   adds; and a parcel that is there before and after a step has the same
   paymentStatus and trackingId unless the step is the update of a settlement
   for it. *)
C13_OnlySettlementWrites ==
    [][/\ paymentsCollection \subseteq paymentsCollection'
       /\ paymentsCollection' # paymentsCollection =>
              /\ Cardinality(paymentsCollection' \ paymentsCollection) = 1
              /\ \E r \in Reqs : InsertStep(r)
       /\ \A id \in ParcelIds :
              \A d \in parcelsCollection[id], e \in parcelsCollection'[id] :
                  d.paymentStatus # e.paymentStatus \/ d.trackingId # e.trackingId =>
                      \E r \in Reqs : UpdateStep(r, id)]_vars

C13_Witness ==
    /\ res.route = "DELETE /parcels/:id" /\ res.status = 200
    /\ \E id \in ParcelIds : parcelsCollection[id] = {} /\ PaymentsOf(id) # {}
    /\ ridersCollection # {} /\ usersCollection # {}

----------------------------------------------------------------------------
(* The guard *)

GuardedRoutes == {"GET /riders", "PATCH /riders/:id", "GET /payments", "GET /parcels"}

\* The headers the guard turns away: none, or a token that does not verify.
RejectedAuthorizations == {Undefined, InvalidToken}

(* C14: a request to a guarded endpoint without an authorization header, or
   with a token the verifier rejects, is answered 401 by a step that calls no
   find() and changes no collection; every other answer of a guarded endpoint
   comes from a handler that ran with the token's email in req.headers.email. *)
C14_GuardRejectsUnverified ==
    /\ [](res.route \in GuardedRoutes =>
            /\ res.authorization \in RejectedAuthorizations <=> res.status = 401
            /\ res.status = 401 =>
                  ~res.queried /\ res.body = {} /\ res.email = Undefined
            /\ res.status # 401 =>
                  \/ \E e \in Emails : res.authorization = TokenOf(e) /\ res.email = e
                  \/ res.authorization = AnonymousToken /\ res.email = Undefined)
    /\ [][res'.route \in GuardedRoutes /\ res'.status = 401 =>
            /\ usersCollection' = usersCollection
            /\ ridersCollection' = ridersCollection
            /\ parcelsCollection' = parcelsCollection
            /\ paymentsCollection' = paymentsCollection]_vars

C14_Witness ==
    /\ res.route = "PATCH /riders/:id" /\ res.status = 401
    /\ res.authorization = InvalidToken
    /\ \E rider \in ridersCollection : rider.status = "pending"
    /\ usersCollection # {}

----------------------------------------------------------------------------
(* Settling again *)

\* r1 then r2 are answered calls for one session id, r2 issued after the
\* answer of r1, no other call in flight meanwhile.
Resubmitted(r1, r2) ==
    /\ Done(r1) /\ Done(r2) /\ After(r1, r2) /\ Alone(r1, r2)
    /\ req[r1].sessionId = req[r2].sessionId

\* Every adapter call the request made has succeeded.
NoAdapterFailure(r) == req[r].error \notin {"StripeError", "MongoError"}

\* The parcel of the _id, if there is one, is paid with the tracking id of r,
\* and r's payment is the one Payment of the parcel.
SettledBy(r, parcelId) ==
    /\ \A d \in parcelsCollection[parcelId] :
           d.paymentStatus = "paid" /\ d.trackingId = req[r].trackingId
    /\ \E doc \in paymentsCollection :
           /\ PaymentsOf(parcelId) = {doc}
           /\ doc.trackingId = req[r].trackingId
           /\ req[r].body = {WithoutId(doc)}

(* C15 as stated: a call answered with the non-paid result, then the session
   paid and submitted again with every adapter call succeeding: the second call
   answers with the payment it inserted. *)
C15_Original ==
    \A r1, r2 \in Reqs :
        /\ Resubmitted(r1, r2) /\ req[r1].kind = "unpaid"
        /\ ObservedPaid(req[r2]) /\ NoAdapterFailure(r2)
        => req[r2].kind = "payment"

(* C15 amended: the same when the session's parcelId is a well-formed object
   id: the second call answers with the payment it inserted, the one Payment
   of the parcel, and the parcel, if there is one, is paid with that call's
   tracking id. *)
C15_UnpaidThenPaidSettles ==
    \A r1, r2 \in Reqs :
        /\ Resubmitted(r1, r2) /\ req[r1].kind = "unpaid"
        /\ ObservedPaid(req[r2]) /\ NoAdapterFailure(r2)
        => \A s \in req[r2].session :
               s.parcelId \in ParcelIds =>
                   req[r2].kind = "payment" /\ SettledBy(r2, s.parcelId)

C15_Witness ==
    \E r1, r2 \in Reqs :
        /\ Resubmitted(r1, r2) /\ req[r1].kind = "unpaid"
        /\ ObservedPaid(req[r2]) /\ req[r2].kind = "payment"
        /\ \E s \in req[r2].session : s.parcelId \in ParcelIds /\ IsPaidParcel(s.parcelId)

----------------------------------------------------------------------------
(* One response, no retry *)

(* C16: a SettleCheckout request sends at most one response, has sent exactly
   one when it is over, and every request that arrived gets there; a failure
   of an adapter is answered 500 with an error in the step it occurs in, and an
   answered request takes no further step.  A step of InitiateCheckout answers
   200 or 500, and 500 leaves no session behind. *)
C16_OneResponseNoRetry ==
    /\ [](\A r \in Reqs :
            /\ req[r].responses = (IF Done(r) THEN 1 ELSE 0)
            /\ Done(r) => req[r].status \in {200, 500}
            /\ req[r].error # "none" =>
                  Done(r) /\ req[r].status = 500 /\ req[r].kind = "error")
    /\ [][\A r \in Reqs : Done(r) => req'[r] = req[r]]_vars
    /\ [][res' # res /\ res'.route = "POST /payments" =>
            /\ res'.status \in {200, 500}
            /\ res'.status = 500 => sessions' = sessions]_vars
    /\ \A r \in Reqs : req[r].pc # "idle" ~> Done(r)

C16_Witness ==
    /\ \E r \in Reqs :
          /\ Done(r) /\ req[r].error = "MongoError" /\ req[r].responses = 1
          /\ \E s \in req[r].session : s.parcelId \in ParcelIds /\ IsPaidParcel(s.parcelId)
    /\ \E r \in Reqs : Done(r) /\ req[r].error = "StripeError"
    /\ res.route = "POST /payments" /\ res.status = 500

----------------------------------------------------------------------------
(* Partial application *)

\* The request updated the parcel and its insertOne was rejected: the parcel
\* bears the request's tracking id and no Payment does.
PartiallyApplied(r) ==
    /\ Done(r) /\ req[r].error = "MongoError" /\ req[r].paid
    /\ \E s \in req[r].session :
          /\ s.parcelId \in ParcelIds
          /\ \E d \in parcelsCollection[s.parcelId] : d.trackingId = req[r].trackingId
    /\ \A p \in paymentsCollection : p.trackingId # req[r].trackingId

\* The request failed in the retrieval of the session, in the lookup of the
\* payment of a session that is not paid, or on a parcelId that is no object id.
OrdinaryFailure(r) ==
    /\ Done(r) /\ req[r].status = 500
    /\ \/ req[r].error = "StripeError"
       \/ req[r].error = "MongoError" /\ req[r].session # {} /\ ~req[r].paid
       \/ req[r].error = "BSONError"

\* What the caller is given, and all that is kept of the request: the handler
\* writes no log.
Outcome(r) ==
    [status |-> req[r].status, kind |-> req[r].kind, error |-> req[r].error,
     body |-> req[r].body]

(* C17: the outcome of a request whose insertOne failed after its parcel
   update was applied differs from the outcome of every request that failed in
   the retrieval, in the lookup or on a malformed identifier. *)
C17_PartialFailureDistinct ==
    \A r1, r2 \in Reqs :
        PartiallyApplied(r1) /\ OrdinaryFailure(r2) => Outcome(r1) # Outcome(r2)
\* The insertOne of the request was rejected, after its updateOne had answered.
InsertFailed(r) == Done(r) /\ req[r].threwAt = "insertOne"

(* C18: a Payment is never there before its parcel is paid, the update being
   awaited before the insert is made; and when the insert of a call was
   rejected after its update, the next call for the same paid session, its
   store calls succeeding, answers with the payment it inserted: it is then the
   one Payment of the parcel, and its tracking id is the parcel's. *)
C18_RetryRepairsPartialApplication ==
    /\ \A r \in Reqs : req[r].pc = "insertOne" \/ InsertFailed(r) \/ req[r].kind = "payment" =>
           \A s \in req[r].session : \A d \in parcelsCollection[s.parcelId] :
               d.paymentStatus = "paid"
    /\ \A id \in ParcelIds : PaymentsOf(id) # {} =>
           \A d \in parcelsCollection[id] : d.paymentStatus = "paid"
    /\ \A r1, r2 \in Reqs :
           /\ Resubmitted(r1, r2) /\ InsertFailed(r1)
           /\ ObservedPaid(req[r2]) /\ NoAdapterFailure(r2)
           => \A s \in req[r2].session :
                  req[r2].kind = "payment" /\ SettledBy(r2, s.parcelId)

C18_Witness ==
    \E r1, r2 \in Reqs :
        /\ Resubmitted(r1, r2) /\ InsertFailed(r1) /\ req[r2].kind = "payment"
        /\ \E s \in req[r2].session : \E d \in parcelsCollection[s.parcelId] :
              d.trackingId = req[r2].trackingId /\ d.trackingId # req[r1].trackingId

----------------------------------------------------------------------------
(* Concurrent settlements *)

\* No PATCH /payments request is in flight.
Quiescent == \A r \in Reqs : req[r].pc \in {"idle", "done"}

(* C19: whenever no settlement is in flight, whatever the interleaving of the
   requests so far, every Payment has the tracking id of the parcel it refers
   to. *)
C19_TrackingIdsAgree ==
    Quiescent =>
        \A p \in paymentsCollection :
            p.parcelId \in ParcelIds =>
                \A d \in parcelsCollection[p.parcelId] : d.trackingId = p.trackingId

(* C20: two distinct paid sessions with the same parcelId, settled one after
   the other, the first call answering with the payment it inserted and the
   second answering without a failure: the second answer is the stored
   document of the first payment, with the transaction of the first session;
   it is the one Payment of the parcel, and the parcel keeps the tracking id
   of the first call. *)
C20_IdempotencyKeyedByParcel ==
    \A r1, r2 \in Reqs : \A s1 \in req[r1].session, s2 \in req[r2].session :
        /\ Done(r1) /\ Done(r2) /\ After(r1, r2) /\ Alone(r1, r2)
        /\ req[r1].sessionId # req[r2].sessionId
        /\ s1.parcelId = s2.parcelId
        /\ ObservedPaid(req[r1]) /\ ObservedPaid(req[r2])
        /\ req[r1].kind = "payment" /\ req[r2].status = 200
        => /\ req[r2].kind = "existing"
           /\ \E doc \in paymentsCollection :
                 /\ PaymentsOf(s1.parcelId) = {doc}
                 /\ req[r2].body = {doc}
                 /\ req[r1].body = {WithoutId(doc)}
                 /\ doc.transactionId = s1.payment_intent
                 /\ doc.transactionId # s2.payment_intent
                 /\ doc.trackingId = req[r1].trackingId
           /\ \A d \in parcelsCollection[s1.parcelId] :
                 d.paymentStatus = "paid" /\ d.trackingId = req[r1].trackingId

C20_Witness ==
    \E r1, r2 \in Reqs : \E s1 \in req[r1].session, s2 \in req[r2].session :
        /\ Done(r1) /\ Done(r2) /\ After(r1, r2)
        /\ req[r1].sessionId # req[r2].sessionId /\ s1.parcelId = s2.parcelId
        /\ ObservedPaid(req[r2]) /\ req[r1].kind = "payment"
        /\ req[r2].kind = "existing"
        /\ \E d \in parcelsCollection[s1.parcelId] : d.trackingId = req[r1].trackingId

----------------------------------------------------------------------------
(* Approving a rider *)

\* The last request was a PATCH /riders/:id whose handler ran to its answer
\* without an error being thrown.
PatchCompleted ==
    res.route = "PATCH /riders/:id" /\ res.status \in {200, 404}

(* C21: after any sequence of POST /users, POST /riders and PATCH /riders/:id
   requests, when a PATCH with status approved has completed for a rider that
   exists, every user with the rider's email has the role rider; and a PATCH
   answers 404 only when no rider has the id. *)
C21_ApprovalMakesRider ==
    PatchCompleted =>
        /\ res.query = "approved" =>
               \A rider \in res.scanned : \A user \in usersCollection :
                   user.email = rider.email => user.role = "rider"
        /\ res.status = 404 => res.scanned = {}

====
